---- MODULE Spec2Model ----
(***************************************************************************)
(* Model of react-native-paywall: the PaywallProvider orchestrator         *)
(* (contexts/PaywallProvider.tsx), the PromoCodeService                    *)
(* (services/PromoCodeService.ts) and the PaywallService                   *)
(* (services/PaywallService.ts).                                           *)
(*                                                                         *)
(* Conventions.                                                            *)
(*  - A JavaScript string that the code builds, trims or concatenates is a *)
(*    sequence of one-character strings; a display text the code only      *)
(*    copies is a TLA+ string.                                             *)
(*  - undefined / null are the values UNDEF / NULL below; an absent        *)
(*    string-valued argument is the empty sequence.                        *)
(*  - Time is in seconds since 2024-01-01T00:00:00Z.                       *)
(*  - Prices are in units of 0.0001 USD, so that integer percentages of    *)
(*    the catalog prices are exact.                                        *)
(*  - An async function is a process: one action per stretch of code       *)
(*    between two points where it really suspends.  An await on a value    *)
(*    that is already settled resumes in a microtask, before any other     *)
(*    event, and therefore does not end an action.                         *)
(*  - A call of a context action reads the state of the latest render;     *)
(*    the values it closed over stay fixed for the rest of that call.      *)
(*  - Init is the provider after initializePaywall has completed.          *)
(***************************************************************************)
EXTENDS Integers, Sequences, FiniteSets, TLC

\* ------------------------------------------------------------------ bounds
MaxPurchases == 2
MaxRestores == 1
MaxCalls == 1
MaxTimers == 1
MaxDiscounts == 1
MaxStacked == 2
MaxTicks == 2

\* ------------------------------------------------------------- null values
UNDEF == [undefined |-> TRUE]
NULL == [null |-> TRUE]
NoError == "undefined"

\* ------------------------------------------------------------ string data
STR_SAVE20 == <<"S", "A", "V", "E", "2", "0">>
STR_save20 == <<"s", "a", "v", "e", "2", "0">>
STR_FREEMONTH == <<"F", "R", "E", "E", "M", "O", "N", "T", "H">>
STR_SPECIAL50 == <<"S", "P", "E", "C", "I", "A", "L", "5", "0">>
STR_monthly == <<"m", "o", "n", "t", "h", "l", "y">>
STR_yearly == <<"y", "e", "a", "r", "l", "y">>
STR_lifetime == <<"l", "i", "f", "e", "t", "i", "m", "e">>
STR_undefined == <<"u", "n", "d", "e", "f", "i", "n", "e", "d">>
STR_null == <<"n", "u", "l", "l">>
STR_user == <<"u", "s", "e", "r", "_", "1", "_", "a">>
STR_guest == <<"g", "u", "e", "s", "t">>
STR_monthly_user == STR_monthly \o <<"_", "u", "s", "e", "r">>
STR_1_a == <<"1", "_", "a">>

Lower == <<"a", "b", "c", "d", "e", "f", "g", "h", "i", "j", "k", "l", "m",
           "n", "o", "p", "q", "r", "s", "t", "u", "v", "w", "x", "y", "z">>
Upper == <<"A", "B", "C", "D", "E", "F", "G", "H", "I", "J", "K", "L", "M",
           "N", "O", "P", "Q", "R", "S", "T", "U", "V", "W", "X", "Y", "Z">>
Whitespace == {" ", "\t", "\n"}

\* String.prototype.toUpperCase, one character
ToUpperChar(c) ==
    IF \E i \in 1..26 : Lower[i] = c
    THEN Upper[CHOOSE i \in 1..26 : Lower[i] = c]
    ELSE c

\* String.prototype.toUpperCase
ToUpperCase(s) == [i \in 1..Len(s) |-> ToUpperChar(s[i])]

\* String.prototype.trim
RECURSIVE TrimLeft(_)
TrimLeft(s) ==
    IF s # <<>> /\ Head(s) \in Whitespace THEN TrimLeft(Tail(s)) ELSE s

RECURSIVE TrimRight(_)
TrimRight(s) ==
    IF s # <<>> /\ s[Len(s)] \in Whitespace
    THEN TrimRight(SubSeq(s, 1, Len(s) - 1))
    ELSE s

Trim(s) == TrimRight(TrimLeft(s))

\* String.prototype.replace(/\s+/g, '')
StripWhitespace(s) == SelectSeq(s, LAMBDA c : c \notin Whitespace)

\* PromoCodeService.normalizeCode
normalizeCode(code) == StripWhitespace(ToUpperCase(Trim(code)))

\* a template literal renders an absent value as the text undefined / null
Render(x) ==
    IF x = <<>> THEN STR_undefined ELSE x

\* the cache key `${code}_${planId}_${userId}` of validatePromoCode
CacheKey(code, planId, userId) ==
    code \o <<"_">> \o Render(planId) \o <<"_">> \o Render(userId)

\* ------------------------------------------------------------------ time
CacheExpirySeconds == 300
ValidFrom2024 == 0
EndOfMarch2024 == 7862399
EndOfJune2024 == 15724799
EndOfYear2024 == 31622399
StartTimes == {86400}

\* ------------------------------------------------------------ catalog data
PlanMonthly ==
    [id |-> STR_monthly, price |-> 49900,
     description |-> <<[text |-> "Access all premium features"]>>]
PlanYearly ==
    [id |-> STR_yearly, price |-> 499900,
     description |-> <<[text |-> "Best value - Save 50%"]>>]
PlanLifetime ==
    [id |-> STR_lifetime, price |-> 1499900,
     description |-> <<[text |-> "Pay once, enjoy forever"]>>]

\* PaywallService.getDefaultPlans
getDefaultPlans == <<PlanMonthly, PlanYearly, PlanLifetime>>

\* PromoCodeService.getMockPlans
getMockPlans ==
    << [id |-> STR_monthly, price |-> 99900,
        description |-> <<[text |-> "Monthly subscription"]>>],
       [id |-> STR_yearly, price |-> 999900,
        description |-> <<[text |-> "Annual subscription"]>>] >>

\* PromoCodeService.getMockPromoCodes (no filters).  The optional fields
\* maxUses and applicablePlans are UNDEF when absent, and wrapped when present
getMockPromoCodes ==
    << [id |-> "1", code |-> STR_SAVE20,
        discount |-> [type |-> "percentage", value |-> 20, duration |-> 0],
        maxUses |-> [value |-> 1000], currentUses |-> 342,
        validFrom |-> ValidFrom2024, validUntil |-> EndOfYear2024,
        isActive |-> TRUE,
        applicablePlans |-> [ids |-> {STR_monthly, STR_yearly}]],
       [id |-> "2", code |-> STR_FREEMONTH,
        discount |-> [type |-> "free_trial", value |-> 30, duration |-> 30],
        maxUses |-> [value |-> 500], currentUses |-> 198,
        validFrom |-> ValidFrom2024, validUntil |-> EndOfJune2024,
        isActive |-> TRUE,
        applicablePlans |-> [ids |-> {STR_monthly}]],
       [id |-> "3", code |-> STR_SPECIAL50,
        discount |-> [type |-> "fixed", value |-> 500000, duration |-> 0],
        maxUses |-> [value |-> 200], currentUses |-> 67,
        validFrom |-> ValidFrom2024, validUntil |-> EndOfMarch2024,
        isActive |-> TRUE,
        applicablePlans |-> [ids |-> {STR_yearly}]] >>

\* the inputs the user actions are tried with
PlanInputs == {PlanMonthly, PlanYearly}
CodeInputs == {STR_SAVE20, STR_SPECIAL50}
UserIds == {STR_user}

Max(a, b) == IF a >= b THEN a ELSE b

\* ------------------------------------------------- PromoCodeService (pure)
\* calculateDiscountedPrice if the fixed discount were not clamped at zero
calculateDiscountedPriceUnclamped(plan, promoCode) ==
    CASE promoCode.discount.type = "percentage" ->
           Max(0, (plan.price * (100 - promoCode.discount.value)) \div 100)
      [] promoCode.discount.type = "fixed" ->
           plan.price - promoCode.discount.value
      [] promoCode.discount.type = "free_trial" -> 0
      [] OTHER -> plan.price

\* PromoCodeService.calculateDiscountedPrice
calculateDiscountedPrice(plan, promoCode) ==
    CASE promoCode.discount.type = "percentage" ->
           Max(0, (plan.price * (100 - promoCode.discount.value)) \div 100)
      [] promoCode.discount.type = "fixed" ->
           Max(0, plan.price - promoCode.discount.value)
      [] promoCode.discount.type = "free_trial" -> 0
      [] OTHER -> plan.price

\* PromoCodeService.applyDiscountToPlan
applyDiscountToPlan(plan, promoCode) ==
    [plan EXCEPT
       !.price = calculateDiscountedPrice(plan, promoCode),
       !.description =
           IF promoCode.discount.type = "free_trial"
           THEN Append(plan.description,
                       [trialDays |-> promoCode.discount.duration])
           ELSE plan.description]

\* Array.prototype.find over a sequence: the first match, or UNDEF
Find(seq, Test(_)) ==
    IF \E i \in 1..Len(seq) : Test(seq[i])
    THEN seq[CHOOSE i \in 1..Len(seq) :
                 Test(seq[i]) /\ \A j \in 1..(i - 1) : ~Test(seq[j])]
    ELSE UNDEF

\* a message that setCachedValidation has not stamped
Msg(text) == [text |-> text, stamp |-> <<>>]

\* PromoCodeService.mockValidate from the result of the catalog lookup on:
\* promoCode is the entry found or UNDEF, t the time new Date() gives
mockValidateFound(promoCode, planId, t) ==
    LET plan == Find(getMockPlans, LAMBDA p : p.id = planId)
    IN  IF promoCode = UNDEF \/ ~promoCode.isActive
        THEN [isValid |-> FALSE, promoCode |-> UNDEF, discountedPrice |-> UNDEF,
              message |-> Msg("Invalid promo code"), error |-> "CODE_NOT_FOUND"]
        ELSE IF t < promoCode.validFrom \/ t > promoCode.validUntil
        THEN [isValid |-> FALSE, promoCode |-> UNDEF, discountedPrice |-> UNDEF,
              message |-> Msg("Promo code has expired"), error |-> "CODE_EXPIRED"]
        ELSE IF /\ promoCode.maxUses # UNDEF
                /\ promoCode.maxUses.value # 0
                /\ promoCode.currentUses >= promoCode.maxUses.value
        THEN [isValid |-> FALSE, promoCode |-> UNDEF, discountedPrice |-> UNDEF,
              message |-> Msg("Promo code has been fully redeemed"),
              error |-> "CODE_EXHAUSTED"]
        ELSE IF /\ promoCode.applicablePlans # UNDEF
                /\ planId # <<>>
                /\ planId \notin promoCode.applicablePlans.ids
        THEN [isValid |-> FALSE, promoCode |-> UNDEF, discountedPrice |-> UNDEF,
              message |-> Msg("Promo code is not applicable to this plan"),
              error |-> "PLAN_NOT_APPLICABLE"]
        ELSE [isValid |-> TRUE, promoCode |-> promoCode,
              discountedPrice |->
                  IF planId # <<>> /\ plan # UNDEF
                  THEN [value |-> calculateDiscountedPrice(plan, promoCode)]
                  ELSE UNDEF,
              message |-> Msg("Promo code applied successfully"),
              error |-> NoError]

\* PromoCodeService.mockValidate, evaluated at time t (the code reads the
\* clock after its simulated network delay)
mockValidate(code, planId, t) ==
    mockValidateFound(Find(getMockPromoCodes, LAMBDA pc : pc.code = code),
                      planId, t)

\* the result validatePromoCode returns from its catch block
ValidationFailed ==
    [isValid |-> FALSE, promoCode |-> UNDEF, discountedPrice |-> UNDEF,
     message |-> Msg("Invalid promo code"), error |-> "VALIDATION_FAILED"]

\* ---------------------------------------------------- validation cache
\* a JavaScript number that may be NaN
Num(n) == [nan |-> FALSE, val |-> n]
NaN == [nan |-> TRUE, val |-> 0]

\* Date.parse of a text the model uses: only a date-time string has a time
\* value, every display text gives NaN
IsoDate(text) ==
    CASE text = "2024-01-02T00:00:00.000Z" -> Num(86400)
      [] OTHER -> NaN

\* Date.parse of a validation message.  A string that carries '|' and a
\* millisecond count after its text is in no engine's date grammar.
DateParse(message) ==
    IF message.stamp # <<>> THEN NaN ELSE IsoDate(message.text)

\* a - b on numbers that may be NaN
Minus(a, b) == IF a.nan \/ b.nan THEN NaN ELSE Num(a.val - b.val)

\* a > b on numbers that may be NaN: every comparison with NaN is false
GreaterThan(a, b) == ~a.nan /\ ~b.nan /\ a.val > b.val

\* the expiry test of getCachedValidation, for an entry that is present
IsExpired(cached, t) ==
    GreaterThan(Minus(Num(t), DateParse(cached.message)), Num(CacheExpirySeconds))

\* PromoCodeService.getCachedValidation: the value returned
getCachedValidation(c, key, t) ==
    IF c[key] = NULL THEN NULL
    ELSE IF IsExpired(c[key], t) THEN NULL
    ELSE c[key]

\* PromoCodeService.getCachedValidation: the cache it leaves
PurgeExpired(c, key, t) ==
    IF c[key] # NULL /\ IsExpired(c[key], t) THEN [c EXCEPT ![key] = NULL] ELSE c

\* PromoCodeService.setCachedValidation
setCachedValidation(c, key, validation, t) ==
    [c EXCEPT ![key] =
        [validation EXCEPT !.message =
            IF validation.message.stamp # <<>>
            THEN validation.message
            ELSE [text |-> validation.message.text, stamp |-> <<t>>]]]

\* ------------------------------------------------------------------ state
VARIABLES
    paywallState,        \* useReducer(paywallReducer, initialPaywallState)
    promoCodeState,      \* useReducer(promoCodeReducer, initialPromoCodeState)
    subscriptionStatus,  \* React.useState<SubscriptionStatusResponse | null>
    userId,              \* React.useState<string | null>
    providerConfig,      \* which collaborators the provider was configured with
    purchases,           \* the purchasePlan() calls, by slot
    timers,              \* pending setTimeout callbacks of purchasePlan
    restores,            \* the restorePurchases() calls, by slot
    calls,               \* the validatePromoCode()/applyPromoCode() calls, by slot
    cache,               \* PromoCodeService.cache
    now,                 \* Date.now()
    ticks,               \* how often the clock has advanced
    lastReturn,          \* history: the last return of a serviceValidate call
                         \* since the cache was last cleared
    observed             \* history: the last value an operation under
                         \* observation gave its caller: the error that
                         \* promoCodeService.applyPromoCode threw, or the
                         \* result of a function applied on its own

vars == <<paywallState, promoCodeState, subscriptionStatus, userId,
          providerConfig, purchases, timers, restores, calls, cache, now,
          ticks, lastReturn, observed>>

\* the (code, planId, userId) arguments validatePromoCode is called with when
\* the cache is looked at on its own: a code in two spellings, a plan id and
\* a user id that contain the separator, an absent plan id and a plan id
\* that spells undefined
CacheInputs ==
    {<<STR_SAVE20, STR_monthly, STR_user>>,
     <<STR_save20, STR_monthly, STR_user>>,
     <<STR_SAVE20, STR_monthly_user, STR_1_a>>,
     <<STR_SAVE20, <<>>, STR_user>>,
     <<STR_SAVE20, STR_undefined, STR_user>>}

\* every cache key the bounded inputs can produce
PlanIdInputs == {p.id : p \in PlanInputs} \cup {<<>>}
Keys ==
    {CacheKey(c, p, u) : c \in CodeInputs, p \in PlanIdInputs, u \in UserIds}
    \cup {CacheKey(a[1], a[2], a[3]) : a \in CacheInputs}

\* new Map()
EmptyCache == [k \in Keys |-> NULL]

\* initialPaywallState
initialPaywallState ==
    [isVisible |-> FALSE, selectedPlan |-> UNDEF, isLoading |-> FALSE,
     error |-> NoError, purchaseState |-> "idle"]

\* initialPromoCodeState
initialPromoCodeState ==
    [code |-> <<>>, validation |-> NULL, isApplying |-> FALSE,
     appliedPromo |-> NULL]

\* PaywallService.getDefaultStatus
getDefaultStatus == [isActive |-> FALSE, entitlements |-> {}]

\* what a configured backend may answer to /subscription/status
StatusResponses == {getDefaultStatus, [isActive |-> TRUE, entitlements |-> {"premium"}]}

NoPurchase == [pc |-> "none", plan |-> UNDEF, promoCode |-> <<>>, redeems |-> 0]
NoRestore == [pc |-> "none"]
NoCall == [pc |-> "none", kind |-> "none", code |-> <<>>, planId |-> <<>>,
           plan |-> UNDEF, userId |-> <<>>]

\* the cache the constructor of PromoCodeService leaves: it clears the new
\* map when enableCache is false, and reads enableCache nowhere else
constructedCache(enableCache) ==
    IF enableCache = FALSE THEN [k \in DOMAIN EmptyCache |-> NULL] ELSE EmptyCache

\* the provider after initializePaywall, whatever the clock shows and
\* whatever subscription status was loaded
InitBase ==
    /\ paywallState = initialPaywallState
    /\ promoCodeState = initialPromoCodeState
    /\ userId \in UserIds
    /\ providerConfig \in [customBackend : BOOLEAN, revenueCat : BOOLEAN,
                            cachePromoCodes : BOOLEAN]
    /\ purchases = [i \in 1..MaxPurchases |-> NoPurchase]
    /\ timers = 0
    /\ restores = [i \in 1..MaxRestores |-> NoRestore]
    /\ calls = [i \in 1..MaxCalls |-> NoCall]
    /\ cache = constructedCache(providerConfig.cachePromoCodes)
    /\ ticks = 0
    /\ lastReturn = NULL
    /\ observed = NULL

\* the provider whose configuration leaves promo code caching on
Init ==
    /\ InitBase
    /\ providerConfig.cachePromoCodes
    /\ subscriptionStatus = getDefaultStatus
    /\ now \in StartTimes

\* --------------------------------------------------------------- reducers
\* paywallReducer
paywallReducer(state, action) ==
    CASE action.type = "SHOW_PAYWALL" ->
           [state EXCEPT !.isVisible = TRUE, !.error = NoError]
      [] action.type = "HIDE_PAYWALL" ->
           [state EXCEPT !.isVisible = FALSE, !.selectedPlan = UNDEF,
                         !.error = NoError]
      [] action.type = "SELECT_PLAN" ->
           [state EXCEPT !.selectedPlan = action.payload]
      [] action.type = "SET_LOADING" ->
           [state EXCEPT !.isLoading = action.payload]
      [] action.type = "SET_ERROR" ->
           [state EXCEPT !.error = action.payload]
      [] action.type = "SET_PURCHASE_STATE" ->
           [state EXCEPT !.purchaseState = action.payload]
      [] OTHER -> state

\* promoCodeReducer
promoCodeReducer(state, action) ==
    CASE action.type = "SET_CODE" ->
           [state EXCEPT !.code = action.payload]
      [] action.type = "SET_VALIDATION" ->
           [state EXCEPT !.validation = action.payload]
      [] action.type = "SET_APPLYING" ->
           [state EXCEPT !.isApplying = action.payload]
      [] action.type = "SET_APPLIED_PROMO" ->
           [state EXCEPT !.appliedPromo = action.payload]
      [] action.type = "CLEAR_PROMO_CODE" ->
           [state EXCEPT !.code = <<>>, !.validation = NULL,
                         !.appliedPromo = NULL]
      [] OTHER -> state

Act(type, payload) == [type |-> type, payload |-> payload]

\* dispatchPaywall, for a run of dispatches in program order
RECURSIVE dispatchPaywall(_, _)
dispatchPaywall(state, actions) ==
    IF actions = <<>> THEN state
    ELSE dispatchPaywall(paywallReducer(state, Head(actions)), Tail(actions))

\* dispatchPromo, for a run of dispatches in program order
RECURSIVE dispatchPromo(_, _)
dispatchPromo(state, actions) ==
    IF actions = <<>> THEN state
    ELSE dispatchPromo(promoCodeReducer(state, Head(actions)), Tail(actions))

\* ------------------------------------------------- paywall actions (sync)
\* showPaywall
showPaywall ==
    /\ paywallState' = dispatchPaywall(paywallState, <<Act("SHOW_PAYWALL", UNDEF)>>)
    /\ UNCHANGED <<promoCodeState, subscriptionStatus, userId, providerConfig,
                   purchases, timers, restores, calls, cache, now, ticks,
                    lastReturn, observed>>

\* hidePaywall
hidePaywall ==
    /\ paywallState' = dispatchPaywall(paywallState, <<Act("HIDE_PAYWALL", UNDEF)>>)
    /\ UNCHANGED <<promoCodeState, subscriptionStatus, userId, providerConfig,
                   purchases, timers, restores, calls, cache, now, ticks,
                    lastReturn, observed>>

\* selectPlan
selectPlan(plan) ==
    /\ paywallState' = dispatchPaywall(paywallState, <<Act("SELECT_PLAN", plan)>>)
    /\ UNCHANGED <<promoCodeState, subscriptionStatus, userId, providerConfig,
                   purchases, timers, restores, calls, cache, now, ticks,
                    lastReturn, observed>>

\* ------------------------------------------------------- collaborators
\* PaywallService reaches the custom backend (fetch) only when no RevenueCat
\* configuration is given; every other path is the in-process mock
BillingIsRemote == providerConfig.customBackend /\ ~providerConfig.revenueCat

\* PromoCodeService.backendUrl is set
PromoIsRemote == providerConfig.customBackend

\* refreshSubscriptionStatus up to its first real suspension: the mock status
\* is set at once and the call waits for AsyncStorage.setItem; the backend
\* status is awaited first
RefreshPc == IF BillingIsRemote THEN "status" ELSE "store"
RefreshStatus == IF BillingIsRemote THEN subscriptionStatus ELSE getDefaultStatus

InFlightPcs == {"billing", "status", "store", "redeem"}
FreeSlots == {i \in 1..MaxPurchases : purchases[i].pc \notin InFlightPcs}
FirstFreeSlot == CHOOSE i \in FreeSlots : \A j \in FreeSlots : i <= j

\* ---------------------------------------------------------- purchasePlan
\* purchasePlan without its early return: a call with no selected plan goes
\* on to the billing call
purchasePlanWithoutPlanCheck ==
    /\ FreeSlots # {}
    /\ paywallState' = dispatchPaywall(paywallState,
                           <<Act("SET_LOADING", TRUE),
                             Act("SET_PURCHASE_STATE", "processing")>>)
    /\ purchases' = [purchases EXCEPT ![FirstFreeSlot] =
           [pc |-> "billing",
            plan |-> paywallState.selectedPlan,
            promoCode |-> IF promoCodeState.appliedPromo = NULL
                          THEN <<>>
                          ELSE promoCodeState.appliedPromo.promoCode.code,
            redeems |-> 0]]
    /\ UNCHANGED <<promoCodeState, subscriptionStatus, userId,
                   providerConfig, timers, restores, calls, cache, now,
                   ticks, lastReturn, observed>>

\* purchasePlan, from the call to the await of paywallService.purchasePlan
purchasePlan ==
    IF paywallState.selectedPlan = UNDEF
    THEN /\ paywallState' = dispatchPaywall(paywallState,
                                <<Act("SET_ERROR", "No plan selected")>>)
         /\ UNCHANGED <<promoCodeState, subscriptionStatus, userId,
                        providerConfig, purchases, timers, restores, calls,
                        cache, now, ticks,  lastReturn, observed>>
    ELSE /\ FreeSlots # {}
         /\ paywallState' = dispatchPaywall(paywallState,
                                <<Act("SET_LOADING", TRUE),
                                  Act("SET_PURCHASE_STATE", "processing")>>)
         /\ purchases' = [purchases EXCEPT ![FirstFreeSlot] =
                [pc |-> "billing",
                 plan |-> paywallState.selectedPlan,
                 promoCode |-> IF promoCodeState.appliedPromo = NULL
                               THEN <<>>
                               ELSE promoCodeState.appliedPromo.promoCode.code,
                 redeems |-> 0]]
         /\ UNCHANGED <<promoCodeState, subscriptionStatus, userId,
                        providerConfig, timers, restores, calls, cache, now,
                        ticks, lastReturn, observed>>

\* paywallService.purchasePlan resolves; refreshSubscriptionStatus starts
purchaseBillingResolved(i) ==
    /\ purchases[i].pc = "billing"
    /\ purchases' = [purchases EXCEPT ![i].pc = RefreshPc]
    /\ subscriptionStatus' = RefreshStatus
    /\ UNCHANGED <<paywallState, promoCodeState, userId, providerConfig,
                   timers, restores, calls, cache, now, ticks, 
                   lastReturn, observed>>

\* the catch block of purchasePlan if it also dropped the applied promo
purchaseBillingRejectedClearingPromo(i) ==
    /\ purchases[i].pc = "billing"
    /\ BillingIsRemote
    /\ paywallState' = dispatchPaywall(paywallState,
                           <<Act("SET_PURCHASE_STATE", "error"),
                             Act("SET_ERROR", "Purchase failed. Please try again."),
                             Act("SET_LOADING", FALSE)>>)
    /\ promoCodeState' = dispatchPromo(promoCodeState,
                                       <<Act("CLEAR_PROMO_CODE", UNDEF)>>)
    /\ purchases' = [purchases EXCEPT ![i].pc = "done", ![i].plan = UNDEF, ![i].promoCode = <<>>]
    /\ UNCHANGED <<subscriptionStatus, userId, providerConfig,
                   timers, restores, calls, cache, now, ticks, lastReturn, observed>>

\* paywallService.purchasePlan rejects (only a backend call can): the catch
\* and finally blocks of purchasePlan
purchaseBillingRejected(i) ==
    /\ purchases[i].pc = "billing"
    /\ BillingIsRemote
    /\ paywallState' = dispatchPaywall(paywallState,
                           <<Act("SET_PURCHASE_STATE", "error"),
                             Act("SET_ERROR", "Purchase failed. Please try again."),
                             Act("SET_LOADING", FALSE)>>)
    /\ purchases' = [purchases EXCEPT ![i].pc = "done", ![i].plan = UNDEF, ![i].promoCode = <<>>]
    /\ UNCHANGED <<promoCodeState, subscriptionStatus, userId, providerConfig,
                   timers, restores, calls, cache, now, ticks, 
                   lastReturn, observed>>

\* refreshSubscriptionStatus inside purchasePlan: the status fetch resolves
purchaseStatusResolved(i, status) ==
    /\ purchases[i].pc = "status"
    /\ purchases' = [purchases EXCEPT ![i].pc = "store"]
    /\ subscriptionStatus' = status
    /\ UNCHANGED <<paywallState, promoCodeState, userId, providerConfig,
                   timers, restores, calls, cache, now, ticks, 
                   lastReturn, observed>>

\* purchasePlan from the return of refreshSubscriptionStatus to the await of
\* redeemWithBackend or, without one, to the end
purchaseAfterRefresh(i) ==
    LET p == purchases[i]
        succeeded == dispatchPaywall(paywallState,
                         <<Act("SET_PURCHASE_STATE", "success")>>)
    IN  IF p.promoCode # <<>> /\ PromoIsRemote
        THEN /\ paywallState' = succeeded
             /\ purchases' = [purchases EXCEPT ![i].pc = "redeem",
                                               ![i].redeems = p.redeems + 1]
             /\ UNCHANGED <<promoCodeState, timers>>
        ELSE /\ timers < MaxTimers
             /\ paywallState' = dispatchPaywall(succeeded,
                                    <<Act("SET_LOADING", FALSE)>>)
             /\ promoCodeState' =
                    IF p.promoCode # <<>>
                    THEN dispatchPromo(promoCodeState,
                                       <<Act("CLEAR_PROMO_CODE", UNDEF)>>)
                    ELSE promoCodeState
             /\ timers' = timers + 1
             /\ purchases' = [purchases EXCEPT
                    ![i].pc = "done", ![i].plan = UNDEF, ![i].promoCode = <<>>,
                    ![i].redeems = IF p.promoCode # <<>>
                                   THEN p.redeems + 1 ELSE p.redeems]

\* refreshSubscriptionStatus inside purchasePlan: the status fetch rejects,
\* the error is logged and purchasePlan goes on
purchaseStatusRejected(i) ==
    /\ purchases[i].pc = "status"
    /\ purchaseAfterRefresh(i)
    /\ UNCHANGED <<subscriptionStatus, userId, providerConfig, restores,
                   calls, cache, now, ticks,  lastReturn, observed>>

\* refreshSubscriptionStatus inside purchasePlan: AsyncStorage.setItem settles
purchaseStoreSettled(i) ==
    /\ purchases[i].pc = "store"
    /\ purchaseAfterRefresh(i)
    /\ UNCHANGED <<subscriptionStatus, userId, providerConfig, restores,
                   calls, cache, now, ticks,  lastReturn, observed>>

\* redeemWithBackend resolves: mockRedeem, CLEAR_PROMO_CODE, setTimeout, finally
purchaseRedeemResolved(i) ==
    /\ purchases[i].pc = "redeem"
    /\ timers < MaxTimers
    /\ promoCodeState' = dispatchPromo(promoCodeState,
                                       <<Act("CLEAR_PROMO_CODE", UNDEF)>>)
    /\ timers' = timers + 1
    /\ paywallState' = dispatchPaywall(paywallState, <<Act("SET_LOADING", FALSE)>>)
    /\ purchases' = [purchases EXCEPT ![i].pc = "done", ![i].plan = UNDEF, ![i].promoCode = <<>>]
    /\ UNCHANGED <<subscriptionStatus, userId, providerConfig, restores,
                   calls, cache, now, ticks,  lastReturn, observed>>

\* redeemWithBackend rejects: redeemPromoCode throws REDEEM_FAILED into the
\* catch block of purchasePlan
purchaseRedeemRejected(i) ==
    /\ purchases[i].pc = "redeem"
    /\ paywallState' = dispatchPaywall(paywallState,
                           <<Act("SET_PURCHASE_STATE", "error"),
                             Act("SET_ERROR", "Failed to redeem promo code"),
                             Act("SET_LOADING", FALSE)>>)
    /\ purchases' = [purchases EXCEPT ![i].pc = "done", ![i].plan = UNDEF, ![i].promoCode = <<>>]
    /\ UNCHANGED <<promoCodeState, subscriptionStatus, userId, providerConfig,
                   timers, restores, calls, cache, now, ticks, 
                   lastReturn, observed>>

\* the setTimeout callback of purchasePlan: hidePaywall(), then idle
purchaseTimeout ==
    /\ timers > 0
    /\ timers' = timers - 1
    /\ paywallState' = dispatchPaywall(paywallState,
                           <<Act("HIDE_PAYWALL", UNDEF),
                             Act("SET_PURCHASE_STATE", "idle")>>)
    /\ UNCHANGED <<promoCodeState, subscriptionStatus, userId, providerConfig,
                   purchases, restores, calls, cache, now, ticks, 
                   lastReturn, observed>>

\* ------------------------------------------------------ restorePurchases
FreeRestores == {i \in 1..MaxRestores : restores[i].pc = "none"}

\* restorePurchases, from the call to its first real suspension
restorePurchases ==
    /\ FreeRestores # {}
    /\ paywallState' = dispatchPaywall(paywallState, <<Act("SET_LOADING", TRUE)>>)
    /\ LET i == CHOOSE i \in FreeRestores : \A j \in FreeRestores : i <= j
       IN  restores' = [restores EXCEPT ![i].pc =
               IF BillingIsRemote THEN "restoring" ELSE RefreshPc]
    /\ subscriptionStatus' = RefreshStatus
    /\ UNCHANGED <<promoCodeState, userId, providerConfig, purchases, timers,
                   calls, cache, now, ticks,  lastReturn, observed>>

\* paywallService.restorePurchases resolves; refreshSubscriptionStatus starts
restoreResolved(i) ==
    /\ restores[i].pc = "restoring"
    /\ restores' = [restores EXCEPT ![i].pc = RefreshPc]
    /\ subscriptionStatus' = RefreshStatus
    /\ UNCHANGED <<paywallState, promoCodeState, userId, providerConfig,
                   purchases, timers, calls, cache, now, ticks, 
                   lastReturn, observed>>

\* the catch block of restorePurchases if it also reported the failure as a
\* failed purchase
restoreRejectedAsPurchaseError(i) ==
    /\ restores[i].pc = "restoring"
    /\ paywallState' = dispatchPaywall(paywallState,
           <<Act("SET_PURCHASE_STATE", "error"),
             Act("SET_ERROR", "Failed to restore purchases. Please try again."),
             Act("SET_LOADING", FALSE)>>)
    /\ restores' = [restores EXCEPT ![i].pc = "none"]
    /\ UNCHANGED <<promoCodeState, subscriptionStatus, userId, providerConfig,
                   purchases, timers, calls, cache, now, ticks,
                   lastReturn, observed>>

\* paywallService.restorePurchases rejects: catch and finally
restoreRejected(i) ==
    /\ restores[i].pc = "restoring"
    /\ paywallState' = dispatchPaywall(paywallState,
           <<Act("SET_ERROR", "Failed to restore purchases. Please try again."),
             Act("SET_LOADING", FALSE)>>)
    /\ restores' = [restores EXCEPT ![i].pc = "none"]
    /\ UNCHANGED <<promoCodeState, subscriptionStatus, userId, providerConfig,
                   purchases, timers, calls, cache, now, ticks, 
                   lastReturn, observed>>

\* refreshSubscriptionStatus inside restorePurchases: the status fetch resolves
restoreStatusResolved(i, status) ==
    /\ restores[i].pc = "status"
    /\ restores' = [restores EXCEPT ![i].pc = "store"]
    /\ subscriptionStatus' = status
    /\ UNCHANGED <<paywallState, promoCodeState, userId, providerConfig,
                   purchases, timers, calls, cache, now, ticks, 
                   lastReturn, observed>>

\* restorePurchases after refreshSubscriptionStatus returned (the status
\* fetch rejected, or AsyncStorage.setItem settled): onRestoreSuccess, finally
restoreAfterRefresh(i) ==
    /\ restores[i].pc \in {"status", "store"}
    /\ paywallState' = dispatchPaywall(paywallState, <<Act("SET_LOADING", FALSE)>>)
    /\ restores' = [restores EXCEPT ![i].pc = "none"]
    /\ UNCHANGED <<promoCodeState, subscriptionStatus, userId, providerConfig,
                   purchases, timers, calls, cache, now, ticks, 
                   lastReturn, observed>>

\* ------------------------------------------- validatePromoCode / applyPromoCode
\* the plans that carry at most n discounts
RECURSIVE Discounted(_)
Discounted(n) ==
    IF n = 0 THEN PlanInputs
    ELSE Discounted(n - 1) \cup
         {applyDiscountToPlan(p, getMockPromoCodes[k]) :
              p \in Discounted(n - 1), k \in 1..Len(getMockPromoCodes)}

FreeCalls == {j \in 1..MaxCalls : calls[j].pc = "none"}
FirstFreeCall == CHOOSE j \in FreeCalls : \A k \in FreeCalls : j <= k

\* the history kept of one return of PromoCodeService.validatePromoCode
Returned(code, planId, uid, result, t, queried) ==
    [key |-> CacheKey(code, planId, uid), code |-> code, planId |-> planId,
     userId |-> uid, result |-> result, at |-> t, queried |-> queried]

\* PaywallProvider.validatePromoCode after promoCodeService.validatePromoCode
\* returned: SET_VALIDATION, the event handler, and SET_APPLYING in finally
validateContinue(promo, validation) ==
    dispatchPromo(promo, <<Act("SET_VALIDATION", validation),
                           Act("SET_APPLYING", FALSE)>>)

\* applyPromoCode if it took the discounted price from the validation (which
\* mockValidate computes on the plans of getMockPlans) and not from the plan
\* it was given
applicationAtValidationPrice(validation, plan, t) ==
    IF ~validation.isValid \/ validation.promoCode = UNDEF
    THEN UNDEF
    ELSE [promoCode |-> validation.promoCode,
          originalPlan |-> plan,
          discountedPlan |->
              [applyDiscountToPlan(plan, validation.promoCode) EXCEPT
                  !.price = IF validation.discountedPrice = UNDEF
                            THEN plan.price
                            ELSE validation.discountedPrice.value],
          appliedAt |-> t]

\* PromoCodeService.applyPromoCode after validatePromoCode returned: the
\* application record, or UNDEF where it throws
application(validation, plan, t) ==
    IF ~validation.isValid \/ validation.promoCode = UNDEF
    THEN UNDEF
    ELSE [promoCode |-> validation.promoCode,
          originalPlan |-> plan,
          discountedPlan |-> applyDiscountToPlan(plan, validation.promoCode),
          appliedAt |-> t]

\* what `new PaywallError(...)` throws in PromoCodeService.applyPromoCode:
\* PaywallError is an interface, so no constructor exists at run time.  A
\* build that keeps the import binds it to undefined (TypeError), one that
\* elides the import leaves the name unbound (ReferenceError); neither error
\* has a code
ConstructorErrors ==
    {[name |-> "TypeError", code |-> NoError],
     [name |-> "ReferenceError", code |-> NoError]}

\* the history kept of an error thrown to the caller of op
Thrown(op, error) == [op |-> op, error |-> error]

\* PaywallProvider.applyPromoCode after promoCodeService.applyPromoCode
\* settled: the error its catch block received, if any
applyContinueObserved(obs, validation, plan, t, error) ==
    IF application(validation, plan, t) = UNDEF
    THEN Thrown("applyPromoCode", error)
    ELSE obs

\* PaywallProvider.applyPromoCode after promoCodeService.applyPromoCode
\* settled: the paywall state it leaves
applyContinuePaywall(pw, validation, plan, t) ==
    IF application(validation, plan, t) = UNDEF
    THEN pw
    ELSE dispatchPaywall(pw,
             <<Act("SELECT_PLAN", application(validation, plan, t).discountedPlan)>>)

\* PaywallProvider.applyPromoCode after promoCodeService.applyPromoCode
\* settled: the promo state it leaves
applyContinuePromo(promo, validation, plan, t) ==
    IF application(validation, plan, t) = UNDEF
    THEN dispatchPromo(promo, <<Act("SET_APPLYING", FALSE)>>)
    ELSE dispatchPromo(promo,
             <<Act("SET_APPLIED_PROMO", application(validation, plan, t)),
               Act("SET_APPLYING", FALSE)>>)

\* PaywallProvider.validatePromoCode, from the call to the await of the
\* catalog (cache miss) or to the end (cache hit)
validatePromoCode(code) ==
    LET planId == IF paywallState.selectedPlan = UNDEF
                  THEN <<>> ELSE paywallState.selectedPlan.id
        key == CacheKey(code, planId, userId)
        cached == getCachedValidation(cache, key, now)
        applying == dispatchPromo(promoCodeState, <<Act("SET_APPLYING", TRUE)>>)
    IN  /\ FreeCalls # {}
        /\ cache' = PurgeExpired(cache, key, now)
        /\ IF cached # NULL
           THEN /\ promoCodeState' = validateContinue(applying, cached)
                /\ UNCHANGED calls
           ELSE /\ promoCodeState' = applying
                /\ calls' = [calls EXCEPT ![FirstFreeCall] =
                       [pc |-> "validating", kind |-> "validate", code |-> code,
                        planId |-> planId, plan |-> UNDEF, userId |-> userId]]
        /\ UNCHANGED <<paywallState, subscriptionStatus, userId, providerConfig,
                       purchases, timers, restores, now, ticks, lastReturn, observed>>

\* PaywallProvider.applyPromoCode past its plan check, from SET_APPLYING to
\* the await of the catalog (cache miss) or to the end (cache hit), called
\* on a plan that carries at most n discounts
applyPromoCodeOnPlanWithin(code, n) ==
    LET plan == paywallState.selectedPlan
        key == CacheKey(code, plan.id, userId)
        cached == getCachedValidation(cache, key, now)
        applying == dispatchPromo(promoCodeState, <<Act("SET_APPLYING", TRUE)>>)
    IN  /\ FreeCalls # {}
        /\ plan \in Discounted(n)
        /\ cache' = PurgeExpired(cache, key, now)
        /\ IF cached # NULL
           THEN /\ paywallState' = applyContinuePaywall(paywallState, cached, plan, now)
                /\ promoCodeState' = applyContinuePromo(applying, cached, plan, now)
                /\ \E error \in ConstructorErrors :
                       observed' = applyContinueObserved(observed, cached,
                                                         plan, now, error)
                /\ UNCHANGED calls
           ELSE /\ promoCodeState' = applying
                /\ calls' = [calls EXCEPT ![FirstFreeCall] =
                       [pc |-> "validating", kind |-> "apply", code |-> code,
                        planId |-> plan.id, plan |-> plan, userId |-> userId]]
                /\ UNCHANGED <<paywallState, observed>>
        /\ UNCHANGED <<subscriptionStatus, userId, providerConfig,
                       purchases, timers, restores, now, ticks, lastReturn>>

\* PaywallProvider.applyPromoCode past its plan check, on a plan that will
\* carry at most MaxDiscounts discounts
applyPromoCodeOnPlan(code) == applyPromoCodeOnPlanWithin(code, MaxDiscounts - 1)

\* PaywallProvider.applyPromoCode called while a plan is selected, on a plan
\* that may already carry a discount and will carry at most MaxStacked
applyPromoCodeStacked(code) ==
    /\ paywallState.selectedPlan # UNDEF
    /\ applyPromoCodeOnPlanWithin(code, MaxStacked - 1)

\* applyPromoCode if it dispatched SET_APPLYING before it looked at the plan
applyPromoCodeApplyingFirst(code) ==
    IF paywallState.selectedPlan = UNDEF
    THEN /\ paywallState' = dispatchPaywall(paywallState,
                                <<Act("SET_ERROR", "Select a plan first")>>)
         /\ promoCodeState' = dispatchPromo(promoCodeState,
                                            <<Act("SET_APPLYING", TRUE)>>)
         /\ UNCHANGED <<subscriptionStatus, userId, providerConfig, purchases,
                        timers, restores, calls, cache, now, ticks, lastReturn,
                        observed>>
    ELSE applyPromoCodeOnPlan(code)

\* PaywallProvider.applyPromoCode, from the call to the await of the catalog
\* (cache miss) or to the end (no plan, or cache hit)
applyPromoCode(code) ==
    IF paywallState.selectedPlan = UNDEF
    THEN /\ paywallState' = dispatchPaywall(paywallState,
                                <<Act("SET_ERROR", "Select a plan first")>>)
         /\ UNCHANGED <<promoCodeState, subscriptionStatus, userId,
                        providerConfig, purchases, timers, restores, calls,
                        cache, now, ticks, lastReturn, observed>>
    ELSE applyPromoCodeOnPlan(code)

\* PromoCodeService.validatePromoCode called on the service itself, from the
\* call to the await of the catalog (cache miss) or to the return (cache hit)
serviceValidate(code, planId, uid) ==
    LET key == CacheKey(code, planId, uid)
        cached == getCachedValidation(cache, key, now)
    IN  /\ FreeCalls # {}
        /\ cache' = PurgeExpired(cache, key, now)
        /\ IF cached # NULL
           THEN /\ lastReturn' = Returned(code, planId, uid, cached, now, FALSE)
                /\ UNCHANGED calls
           ELSE /\ calls' = [calls EXCEPT ![FirstFreeCall] =
                       [pc |-> "validating", kind |-> "service", code |-> code,
                        planId |-> planId, plan |-> UNDEF, userId |-> uid]]
                /\ UNCHANGED lastReturn
        /\ UNCHANGED <<paywallState, promoCodeState, subscriptionStatus, userId,
                       providerConfig, purchases, timers, restores, now, ticks,
                       observed>>

\* the rest of the caller of call j, once promoCodeService.validatePromoCode
\* has returned validation after asking the catalog
callContinue(j, validation) ==
    LET c == calls[j]
    IN  /\ calls' = [calls EXCEPT ![j] = NoCall]
        /\ paywallState' =
               IF c.kind = "apply"
               THEN applyContinuePaywall(paywallState, validation, c.plan, now)
               ELSE paywallState
        /\ promoCodeState' =
               CASE c.kind = "apply" ->
                      applyContinuePromo(promoCodeState, validation, c.plan, now)
                 [] c.kind = "validate" ->
                      validateContinue(promoCodeState, validation)
                 [] OTHER -> promoCodeState
        /\ lastReturn' =
               IF c.kind = "service"
               THEN Returned(c.code, c.planId, c.userId, validation, now, TRUE)
               ELSE lastReturn
        /\ \E error \in ConstructorErrors :
               observed' =
                   IF c.kind = "apply"
                   THEN applyContinueObserved(observed, validation, c.plan,
                                              now, error)
                   ELSE observed

\* the catalog answers call j (mockValidate, or a backend that implements the
\* same catalog): the result is cached and returned
callResolved(j) ==
    LET c == calls[j]
        key == CacheKey(c.code, c.planId, c.userId)
        validation == mockValidate(normalizeCode(c.code), c.planId, now)
    IN  /\ c.pc = "validating"
        /\ cache' = setCachedValidation(cache, key, validation, now)
        /\ callContinue(j, validation)
        /\ UNCHANGED <<subscriptionStatus, userId, providerConfig, purchases,
                       timers, restores, now, ticks>>

\* validatePromoCode if its catch block rethrew, as the catch block of
\* applyPromoCode does: the caller gets the backend's error and no value
callRejectedRethrowing(j) ==
    LET c == calls[j]
    IN  /\ c.pc = "validating"
        /\ PromoIsRemote
        /\ calls' = [calls EXCEPT ![j] = NoCall]
        /\ promoCodeState' =
               IF c.kind = "service"
               THEN promoCodeState
               ELSE dispatchPromo(promoCodeState, <<Act("SET_APPLYING", FALSE)>>)
        /\ observed' = Thrown("validatePromoCode",
                              [name |-> "Error", code |-> NoError])
        /\ UNCHANGED <<paywallState, subscriptionStatus, userId, providerConfig,
                       purchases, timers, restores, cache, now, ticks,
                       lastReturn>>

\* validateWithBackend throws for call j (transport error or non-2xx): the
\* catch block of validatePromoCode returns VALIDATION_FAILED, uncached
callRejected(j) ==
    LET c == calls[j]
    IN  /\ c.pc = "validating"
        /\ PromoIsRemote
        /\ callContinue(j, ValidationFailed)
        /\ UNCHANGED <<subscriptionStatus, userId, providerConfig, purchases,
                       timers, restores, cache, now, ticks>>

\* PromoCodeService.mockCheckUsage
mockCheckUsage(code) == code \in {STR_SAVE20, STR_FREEMONTH}

\* the history kept of one return of PromoCodeService.hasUserUsedPromoCode:
\* the value it resolved to, and whether its backend call had failed
UsageChecked(code, uid, result, failed) ==
    [op |-> "hasUserUsedPromoCode", code |-> code, userId |-> uid,
     result |-> result, failed |-> failed]

\* PromoCodeService.hasUserUsedPromoCode, from the call to the await of the
\* backend or, with the mock, to the return
hasUserUsedPromoCode(code, uid) ==
    /\ FreeCalls # {}
    /\ IF PromoIsRemote
       THEN /\ calls' = [calls EXCEPT ![FirstFreeCall] =
                   [pc |-> "checking", kind |-> "usage", code |-> code,
                    planId |-> <<>>, plan |-> UNDEF, userId |-> uid]]
            /\ UNCHANGED observed
       ELSE /\ observed' = UsageChecked(code, uid, mockCheckUsage(code), FALSE)
            /\ UNCHANGED calls
    /\ UNCHANGED <<paywallState, promoCodeState, subscriptionStatus, userId,
                   providerConfig, purchases, timers, restores, cache, now,
                   ticks, lastReturn>>

\* checkUsageWithBackend resolves with the backend's hasUsed
usageResolved(j, hasUsed) ==
    LET c == calls[j]
    IN  /\ c.pc = "checking"
        /\ calls' = [calls EXCEPT ![j] = NoCall]
        /\ observed' = UsageChecked(c.code, c.userId, hasUsed, FALSE)
        /\ UNCHANGED <<paywallState, promoCodeState, subscriptionStatus,
                       userId, providerConfig, purchases, timers, restores,
                       cache, now, ticks, lastReturn>>

\* hasUserUsedPromoCode without its catch block: the backend's error reaches
\* the caller
usageRejectedRethrowing(j) ==
    LET c == calls[j]
    IN  /\ c.pc = "checking"
        /\ calls' = [calls EXCEPT ![j] = NoCall]
        /\ observed' = Thrown("hasUserUsedPromoCode",
                              [name |-> "Error", code |-> NoError])
        /\ UNCHANGED <<paywallState, promoCodeState, subscriptionStatus,
                       userId, providerConfig, purchases, timers, restores,
                       cache, now, ticks, lastReturn>>

\* checkUsageWithBackend throws (transport error, non-2xx, unreadable body):
\* the catch block of hasUserUsedPromoCode returns false
usageRejected(j) ==
    LET c == calls[j]
    IN  /\ c.pc = "checking"
        /\ calls' = [calls EXCEPT ![j] = NoCall]
        /\ observed' = UsageChecked(c.code, c.userId, FALSE, TRUE)
        /\ UNCHANGED <<paywallState, promoCodeState, subscriptionStatus,
                       userId, providerConfig, purchases, timers, restores,
                       cache, now, ticks, lastReturn>>

\* PromoCodeService.clearCache
clearCache ==
    /\ cache' = EmptyCache
    /\ lastReturn' = NULL
    /\ UNCHANGED <<paywallState, promoCodeState, subscriptionStatus, userId,
                   providerConfig, purchases, timers, restores, calls, now,
                   ticks, observed>>

\* removePromoCode if it cleared the promo and left the discounted plan
\* selected
removePromoCodeKeepingDiscount ==
    /\ promoCodeState' = dispatchPromo(promoCodeState,
                                       <<Act("CLEAR_PROMO_CODE", UNDEF)>>)
    /\ UNCHANGED <<paywallState, subscriptionStatus, userId, providerConfig,
                   purchases, timers, restores, calls, cache, now, ticks,
                   lastReturn, observed>>

\* removePromoCode
removePromoCode ==
    /\ promoCodeState' = dispatchPromo(promoCodeState,
                                       <<Act("CLEAR_PROMO_CODE", UNDEF)>>)
    /\ paywallState' =
           IF paywallState.selectedPlan # UNDEF /\ promoCodeState.appliedPromo # NULL
           THEN dispatchPaywall(paywallState,
                    <<Act("SELECT_PLAN", promoCodeState.appliedPromo.originalPlan)>>)
           ELSE paywallState
    /\ UNCHANGED <<subscriptionStatus, userId, providerConfig, purchases,
                   timers, restores, calls, cache, now, ticks, 
                   lastReturn, observed>>

\* ------------------------------------------------------------------ clock
TickSteps == {1, CacheExpirySeconds}

\* time passes
Tick(d) ==
    /\ ticks < MaxTicks
    /\ ticks' = ticks + 1
    /\ now' = now + d
    /\ UNCHANGED <<paywallState, promoCodeState, subscriptionStatus, userId,
                   providerConfig, purchases, timers, restores, calls, cache,
                    lastReturn, observed>>

\* ---------------------------------------------------------- specification
\* the steps of the purchasePlan calls in flight, and their timers
NextPurchaseSteps ==
    \/ \E i \in 1..MaxPurchases : purchaseBillingResolved(i)
    \/ \E i \in 1..MaxPurchases : purchaseBillingRejected(i)
    \/ \E i \in 1..MaxPurchases : \E status \in StatusResponses :
           purchaseStatusResolved(i, status)
    \/ \E i \in 1..MaxPurchases : purchaseStatusRejected(i)
    \/ \E i \in 1..MaxPurchases : purchaseStoreSettled(i)
    \/ \E i \in 1..MaxPurchases : purchaseRedeemResolved(i)
    \/ \E i \in 1..MaxPurchases : purchaseRedeemRejected(i)
    \/ purchaseTimeout

\* the steps of the restorePurchases calls in flight
NextRestoreSteps ==
    \/ \E i \in 1..MaxRestores : restoreResolved(i)
    \/ \E i \in 1..MaxRestores : restoreRejected(i)
    \/ \E i \in 1..MaxRestores : \E status \in StatusResponses :
           restoreStatusResolved(i, status)
    \/ \E i \in 1..MaxRestores : restoreAfterRefresh(i)

\* the catalog settles a validation in flight
NextCallSteps ==
    \/ \E j \in 1..MaxCalls : callResolved(j)
    \/ \E j \in 1..MaxCalls : callRejected(j)

\* no purchasePlan call is between its call and its return
NoPurchaseInFlight == \A i \in 1..MaxPurchases : purchases[i].pc \notin InFlightPcs

\* the purchase flow of a caller that awaits purchasePlan() before it calls
\* it again (usePurchaseFlow.handlePurchase), with plan selection, closing
\* and a promo applied or removed at any moment; a call without a selected
\* plan returns at once and may come at any time
Next ==
    \/ hidePaywall
    \/ \E plan \in PlanInputs : selectPlan(plan)
    \/ (paywallState.selectedPlan = UNDEF \/ NoPurchaseInFlight) /\ purchasePlan
    \/ NextPurchaseSteps
    \/ applyPromoCode(STR_SAVE20)
    \/ NextCallSteps
    \/ removePromoCode

Spec == Init /\ [][Next]_vars

\* the provider configured with a custom backend and no RevenueCat, where
\* every collaborator call is a request that can fail
InitRemote ==
    Init /\ providerConfig.customBackend /\ ~providerConfig.revenueCat

\* the awaited purchase flow on one plan
NextTimed ==
    \/ hidePaywall
    \/ selectPlan(PlanMonthly)
    \/ (paywallState.selectedPlan = UNDEF \/ NoPurchaseInFlight) /\ purchasePlan
    \/ NextPurchaseSteps
    \/ applyPromoCode(STR_SAVE20)
    \/ NextCallSteps

\* that flow where every call in flight is eventually settled by its
\* collaborator and every scheduled timer eventually fires; nothing obliges
\* the user to act
FairSpec ==
    /\ InitRemote
    /\ [][NextTimed]_vars
    /\ WF_vars(NextPurchaseSteps)
    /\ WF_vars(NextCallSteps)

\* the paywall actions called without any discipline and without a promo:
\* purchasePlan and restorePurchases may be called again while earlier calls
\* are in flight (no purchase has a code to redeem)
NextOverlap ==
    \/ showPaywall
    \/ hidePaywall
    \/ \E plan \in PlanInputs : selectPlan(plan)
    \/ purchasePlan
    \/ \E i \in 1..MaxPurchases : purchaseBillingResolved(i)
    \/ \E i \in 1..MaxPurchases : purchaseBillingRejected(i)
    \/ \E i \in 1..MaxPurchases : \E status \in StatusResponses :
           purchaseStatusResolved(i, status)
    \/ \E i \in 1..MaxPurchases : purchaseStatusRejected(i)
    \/ \E i \in 1..MaxPurchases : purchaseStoreSettled(i)
    \/ purchaseTimeout
    \/ restorePurchases
    \/ NextRestoreSteps

SpecOverlap == Init /\ [][NextOverlap]_vars

\* the promo code service used on its own while time passes
NextService ==
    \/ \E code \in CodeInputs : \E planId \in {STR_monthly, <<>>} : \E uid \in UserIds :
           serviceValidate(code, planId, uid)
    \/ NextCallSteps
    \/ clearCache
    \/ \E d \in TickSteps : Tick(d)

\* the service is configured by the promo backend alone
InitService == Init /\ ~providerConfig.revenueCat

SpecService == InitService /\ [][NextService]_vars

\* the promo code actions of the provider on their own: plans are selected
\* and dropped, codes are applied and removed, validations settle
NextPromo ==
    \/ hidePaywall
    \/ \E plan \in PlanInputs : selectPlan(plan)
    \/ \E code \in CodeInputs : applyPromoCode(code)
    \/ NextCallSteps
    \/ removePromoCode

SpecPromo == Init /\ [][NextPromo]_vars

\* restorePurchases called at any moment of the awaited purchase flow on one
\* plan, with a promo applied or not
NextRestore ==
    \/ selectPlan(PlanMonthly)
    \/ applyPromoCode(STR_SAVE20)
    \/ NextCallSteps
    \/ (paywallState.selectedPlan = UNDEF \/ NoPurchaseInFlight) /\ purchasePlan
    \/ NextPurchaseSteps
    \/ restorePurchases
    \/ NextRestoreSteps

SpecRestore == Init /\ [][NextRestore]_vars

\* codes applied one after the other on the selected plan, and removed
NextStacked ==
    \/ \E plan \in PlanInputs : selectPlan(plan)
    \/ \E code \in CodeInputs : applyPromoCodeStacked(code)
    \/ NextCallSteps
    \/ removePromoCode

SpecStacked == Init /\ [][NextStacked]_vars

\* the validation cache on its own, in a service constructed with caching
\* on or off: validatePromoCode is called with arguments that differ in the
\* spelling of the code or in where the separator falls
NextCache ==
    \/ \E a \in CacheInputs : serviceValidate(a[1], a[2], a[3])
    \/ NextCallSteps

InitCache ==
    /\ InitBase
    /\ ~providerConfig.revenueCat
    /\ subscriptionStatus = getDefaultStatus
    /\ now \in StartTimes

SpecCache == InitCache /\ [][NextCache]_vars

\* the usage check of the promo code service on its own
UsageCodeInputs == CodeInputs \cup {STR_save20, STR_FREEMONTH}
UsageUserInputs == {STR_user, STR_guest}

NextUsage ==
    \/ \E code \in UsageCodeInputs : \E uid \in UsageUserInputs :
           hasUserUsedPromoCode(code, uid)
    \/ \E j \in 1..MaxCalls : \E hasUsed \in BOOLEAN : usageResolved(j, hasUsed)
    \/ \E j \in 1..MaxCalls : usageRejected(j)

SpecUsage == Init /\ [][NextUsage]_vars

\* ------------------------------------------------ functions on their own
\* isFeatureUnlocked if it did not look at isActive
isFeatureUnlockedIgnoringActive(featureId) ==
    IF subscriptionStatus = NULL
    THEN FALSE
    ELSE \/ featureId \in subscriptionStatus.entitlements
         \/ "premium" \in subscriptionStatus.entitlements

\* isFeatureUnlocked
isFeatureUnlocked(featureId) ==
    IF subscriptionStatus = NULL \/ ~subscriptionStatus.isActive
    THEN FALSE
    ELSE \/ featureId \in subscriptionStatus.entitlements
         \/ "premium" \in subscriptionStatus.entitlements

\* the catalog entries mockValidate is tried on: one code with every
\* combination of the fields its checks read, within the usage invariant
\* currentUses <= maxUses
MaxUsesInputs == {UNDEF, [value |-> 0], [value |-> 2]}
ApplicablePlansInputs == {UNDEF, [ids |-> {}], [ids |-> {STR_yearly}]}
PromoCodeInputs ==
    {pc \in [id : {"3"}, code : {STR_SPECIAL50},
             discount : {[type |-> "fixed", value |-> 500000, duration |-> 0]},
             maxUses : MaxUsesInputs, currentUses : 0..2,
             validFrom : {ValidFrom2024}, validUntil : {EndOfMarch2024},
             isActive : BOOLEAN, applicablePlans : ApplicablePlansInputs] :
         pc.maxUses = UNDEF \/ pc.currentUses <= pc.maxUses.value}

\* the times new Date() gives: before, at the ends of, inside and after the
\* validity window of the entries
ClockInputs ==
    {ValidFrom2024 - 1, ValidFrom2024, 86400, EndOfMarch2024, EndOfMarch2024 + 1}

\* the prices and discounts calculateDiscountedPrice is tried on
PriceInputs == {0, 49900, 499900, 1000000}
DiscountInputs ==
    [type : {"percentage"}, value : {0, 20, 100, 150}, duration : {0}]
    \cup [type : {"fixed"}, value : {0, 49900, 500000}, duration : {0}]
    \cup [type : {"free_trial"}, value : {30}, duration : {30}]

\* the subscription statuses isFeatureUnlocked is tried on
FeatureIds == {"export", "sync", "premium"}
StatusInputs ==
    {NULL} \cup [isActive : BOOLEAN,
                 entitlements : {{}, {"export"}, {"premium"}, {"sync", "premium"}}]

\* mockValidate finds promoCode in the catalog (or nothing) and checks it
applyMockValidate(promoCode, planId) ==
    /\ observed' = [op |-> "mockValidate", promoCode |-> promoCode,
                    planId |-> planId, at |-> now,
                    result |-> mockValidateFound(promoCode, planId, now)]
    /\ UNCHANGED <<paywallState, promoCodeState, subscriptionStatus, userId,
                   providerConfig, purchases, timers, restores, calls, cache,
                   now, ticks, lastReturn>>

\* calculateDiscountedPrice is called for a plan of this price
applyCalculateDiscountedPrice(price, discount) ==
    /\ observed' = [op |-> "calculateDiscountedPrice", price |-> price,
                    discount |-> discount,
                    result |-> calculateDiscountedPrice([price |-> price],
                                                        [discount |-> discount])]
    /\ UNCHANGED <<paywallState, promoCodeState, subscriptionStatus, userId,
                   providerConfig, purchases, timers, restores, calls, cache,
                   now, ticks, lastReturn>>

\* isFeatureUnlocked is called
applyIsFeatureUnlocked(featureId) ==
    /\ observed' = [op |-> "isFeatureUnlocked", status |-> subscriptionStatus,
                    featureId |-> featureId,
                    result |-> isFeatureUnlocked(featureId)]
    /\ UNCHANGED <<paywallState, promoCodeState, subscriptionStatus, userId,
                   providerConfig, purchases, timers, restores, calls, cache,
                   now, ticks, lastReturn>>

\* the development configuration, the one in which the service validates
\* with mockValidate
InitPure ==
    /\ InitBase
    /\ providerConfig = [customBackend |-> FALSE, revenueCat |-> FALSE,
                         cachePromoCodes |-> TRUE]
    /\ subscriptionStatus \in StatusInputs
    /\ now \in ClockInputs

NextPure ==
    \/ \E promoCode \in PromoCodeInputs \cup {UNDEF} :
       \E planId \in {<<>>, STR_monthly, STR_yearly} :
           applyMockValidate(promoCode, planId)
    \/ \E price \in PriceInputs : \E discount \in DiscountInputs :
           applyCalculateDiscountedPrice(price, discount)
    \/ \E featureId \in FeatureIds : applyIsFeatureUnlocked(featureId)

SpecPure == InitPure /\ [][NextPure]_vars

\* ------------------------------------------------------------------ claims
InBilling == {i \in 1..MaxPurchases : purchases[i].pc = "billing"}
BillingSucceededPcs == {"status", "store", "redeem"}

PromoCleared(promo) ==
    promo.code = <<>> /\ promo.validation = NULL /\ promo.appliedPromo = NULL

\* C1: a purchasePlan() call made while a purchase is processing does not
\* reach the billing collaborator, so at most one billing purchase call is in
\* flight at any time.
C1_AtMostOneBillingInFlight == Cardinality(InBilling) <= 1

\* C2: when a purchase succeeds while a promo is applied, that purchase makes
\* exactly one redeemPromoCode call, for the applied promo's code, and the
\* promo state is cleared when the purchase returns.
C2_RedeemOnceAndClear ==
    [][\A i \in 1..MaxPurchases :
         /\ ( /\ purchases[i].pc \in {"status", "store"}
              /\ purchases'[i].pc \in {"redeem", "done"}
              /\ promoCodeState.appliedPromo # NULL )
            => /\ purchases'[i].redeems = 1
               /\ purchases[i].promoCode =
                      promoCodeState.appliedPromo.promoCode.code
         /\ ( /\ purchases[i].pc \in BillingSucceededPcs
              /\ purchases'[i].pc = "done"
              /\ promoCodeState.appliedPromo # NULL )
            => PromoCleared(promoCodeState')
      ]_vars

\* C3: once billing has succeeded, the settling of the redeemPromoCode call,
\* failure included, neither moves purchaseState to error nor records an
\* error message.
C3_RedeemFailureKeepsSuccess ==
    [][\A i \in 1..MaxPurchases :
         (purchases[i].pc = "redeem" /\ purchases'[i].pc = "done")
         => /\ paywallState'.purchaseState # "error"
            /\ paywallState'.error = paywallState.error
      ]_vars

\* C4: whenever a promo is applied, selectedPlan is the applied promo's
\* discounted plan.
C4_SelectedPlanIsDiscounted ==
    promoCodeState.appliedPromo # NULL
    => paywallState.selectedPlan = promoCodeState.appliedPromo.discountedPlan

\* C5: a validation returned from the cache was stored at most the TTL before
\* the call that returns it.
C5_NoReturnPastExpiry ==
    (lastReturn # NULL /\ ~lastReturn.queried)
    => lastReturn.at - lastReturn.result.message.stamp[1] <= CacheExpirySeconds

\* C6: a validatePromoCode call that returns within the TTL of the previous
\* return for the same key returns the same result in every field and makes
\* no catalog request.
C6_CacheIdempotent ==
    [][( /\ lastReturn # NULL
         /\ lastReturn' # NULL
         /\ lastReturn' # lastReturn
         /\ lastReturn'.key = lastReturn.key
         /\ lastReturn'.at - lastReturn.at <= CacheExpirySeconds )
       => /\ lastReturn'.result = lastReturn.result
          /\ ~lastReturn'.queried
      ]_vars

\* C7: whenever purchaseState is success or error, it eventually is idle
\* again, with no obligation on the user to act.
C7_EventuallyIdle ==
    (paywallState.purchaseState \in {"success", "error"})
        ~> (paywallState.purchaseState = "idle")

\* C8: no step moves purchaseState from processing to idle while a billing
\* purchase call is in flight.
C8_NoIdleResetMidFlight ==
    [][InBilling # {}
       => ~( /\ paywallState.purchaseState = "processing"
             /\ paywallState'.purchaseState = "idle" )
      ]_vars

\* C9: a purchasePlan call whose billing call fails ends with purchaseState
\* error and the failure's message in paywallState.error; neither its start
\* nor its failure changes selectedPlan or the promo state, and it makes no
\* redemption call.
C9_BillingFailureFrame ==
    [][\A i \in 1..MaxPurchases :
         /\ (purchases[i].pc \notin InFlightPcs /\ purchases'[i].pc = "billing")
            => /\ paywallState'.selectedPlan = paywallState.selectedPlan
               /\ promoCodeState' = promoCodeState
               /\ purchases'[i].redeems = 0
         /\ (purchases[i].pc = "billing" /\ purchases'[i].pc = "done")
            => /\ paywallState'.purchaseState = "error"
               /\ paywallState'.error = "Purchase failed. Please try again."
               /\ paywallState'.selectedPlan = paywallState.selectedPlan
               /\ promoCodeState' = promoCodeState
               /\ purchases'[i].redeems = 0
      ]_vars

\* a billing failure has been reported while a promo is applied and a plan
\* is selected
C9_Witness ==
    /\ paywallState.purchaseState = "error"
    /\ paywallState.error = "Purchase failed. Please try again."
    /\ paywallState.selectedPlan # UNDEF
    /\ promoCodeState.appliedPromo # NULL
    /\ \E i \in 1..MaxPurchases : purchases[i].pc = "done"

\* C10: purchasePlan() with no selected plan sets the error to the
\* no-plan-selected message and changes nothing else: purchaseState,
\* isLoading, the promo state and the purchase calls in flight stay as they
\* are, and no billing call ever runs without a plan.
C10_NoPlanSelected ==
    /\ [](\A i \in 1..MaxPurchases :
             purchases[i].pc = "billing" => purchases[i].plan # UNDEF)
    /\ [][(purchasePlan /\ paywallState.selectedPlan = UNDEF)
          => /\ paywallState'.error = "No plan selected"
             /\ paywallState'.purchaseState = paywallState.purchaseState
             /\ paywallState'.isLoading = paywallState.isLoading
             /\ promoCodeState' = promoCodeState
             /\ purchases' = purchases
         ]_vars

\* purchasePlan() was called with no plan while an earlier purchase, started
\* before the paywall was closed, is still processing
C10_Witness ==
    /\ paywallState.error = "No plan selected"
    /\ paywallState.selectedPlan = UNDEF
    /\ paywallState.purchaseState = "processing"
    /\ paywallState.isLoading
    /\ InBilling # {}

\* an applyPromoCode call ends in this step with a new application record
ApplySucceeds(j) ==
    /\ calls[j].kind = "apply"
    /\ calls'[j] = NoCall
    /\ promoCodeState'.appliedPromo # NULL
    /\ promoCodeState'.appliedPromo # promoCodeState.appliedPromo

\* C11: a successful applyPromoCode on selectedPlan = P records P as the
\* original plan and selects the discounted plan, and removePromoCode() then
\* selects P again, equal in every field, and resets code, validation and
\* appliedPromo together.
C11_RemoveRestoresPlan ==
    [][ /\ \A j \in 1..MaxCalls :
             ApplySucceeds(j)
             => /\ promoCodeState'.appliedPromo.originalPlan = calls[j].plan
                /\ paywallState'.selectedPlan =
                       promoCodeState'.appliedPromo.discountedPlan
        /\ ( /\ removePromoCode
             /\ promoCodeState.appliedPromo # NULL
             /\ paywallState.selectedPlan # UNDEF )
           => /\ paywallState'.selectedPlan =
                     promoCodeState.appliedPromo.originalPlan
              /\ PromoCleared(promoCodeState')
      ]_vars

\* SAVE20 was applied to the monthly plan (its validation is in the cache)
\* and removed again: no purchase ever ran that could have cleared it
C11_Witness ==
    /\ cache[CacheKey(STR_SAVE20, STR_monthly, userId)] # NULL
    /\ cache[CacheKey(STR_SAVE20, STR_monthly, userId)].isValid
    /\ PromoCleared(promoCodeState)
    /\ paywallState.selectedPlan = PlanMonthly
    /\ \A i \in 1..MaxPurchases : purchases[i].pc = "none"

\* C12: when another plan was selected while an applyPromoCode call was in
\* flight, the settling of that call changes neither selectedPlan nor
\* appliedPromo.
C12_StaleApplyDiscarded ==
    [][\A j \in 1..MaxCalls :
         ( /\ calls[j].kind = "apply"
           /\ calls'[j] = NoCall
           /\ paywallState.selectedPlan # UNDEF
           /\ paywallState.selectedPlan.id # calls[j].planId )
         => /\ paywallState'.selectedPlan = paywallState.selectedPlan
            /\ promoCodeState'.appliedPromo = promoCodeState.appliedPromo
      ]_vars

\* C13: applyPromoCode(code) with no selected plan records the
\* select-a-plan-first error and starts no validation: the promo state, the
\* calls in flight and the validation cache stay as they are.
C13_SelectPlanFirst ==
    [][\A code \in CodeInputs :
         (applyPromoCode(code) /\ paywallState.selectedPlan = UNDEF)
         => /\ paywallState'.error = "Select a plan first"
            /\ promoCodeState' = promoCodeState
            /\ calls' = calls
            /\ cache' = cache
      ]_vars

\* applyPromoCode was called with no plan selected while a promo applied
\* before the paywall was closed is still recorded
C13_Witness ==
    /\ paywallState.error = "Select a plan first"
    /\ paywallState.selectedPlan = UNDEF
    /\ promoCodeState.appliedPromo # NULL

\* mockValidate was applied to a catalog entry
Validated == observed # NULL /\ observed.op = "mockValidate"

FirstFailure(pc, planId, t) ==
    IF pc = UNDEF THEN "CODE_NOT_FOUND"
    ELSE IF ~pc.isActive THEN "CODE_NOT_FOUND"
    ELSE IF t < pc.validFrom \/ t > pc.validUntil THEN "CODE_EXPIRED"
    ELSE IF pc.maxUses # UNDEF /\ pc.currentUses >= pc.maxUses.value
         THEN "CODE_EXHAUSTED"
    ELSE IF planId # <<>> /\ pc.applicablePlans # UNDEF
            /\ planId \notin pc.applicablePlans.ids
         THEN "PLAN_NOT_APPLICABLE"
    ELSE NoError

Priced == observed # NULL /\ observed.op = "calculateDiscountedPrice"

\* C19: for a non-negative price p and a discount value v the discounted
\* price is never negative; it is p less v percent for percentage (0 from
\* 100 percent on), p - v for fixed (0 when v exceeds p), and 0 for
\* free_trial.
C19_DiscountedPrice ==
    Priced
    => /\ observed.result >= 0
       /\ observed.discount.type = "percentage"
          => IF observed.discount.value >= 100
             THEN observed.result = 0
             ELSE observed.result * 100 =
                      observed.price * (100 - observed.discount.value)
       /\ observed.discount.type = "fixed"
          => IF observed.discount.value > observed.price
             THEN observed.result = 0
             ELSE observed.result = observed.price - observed.discount.value
       /\ observed.discount.type = "free_trial" => observed.result = 0

\* a fixed discount larger than the price was applied and gave 0
C19_Witness ==
    /\ Priced
    /\ observed.discount.type = "fixed"
    /\ observed.price > 0
    /\ observed.discount.value > observed.price
    /\ observed.result = 0

\* C20: isFeatureUnlocked(featureId) is true exactly when a subscription
\* status exists, it is active, and its entitlements contain featureId or
\* "premium".
C20_FeatureUnlocked ==
    (observed # NULL /\ observed.op = "isFeatureUnlocked")
    => ( observed.result
         <=> /\ observed.status # NULL
             /\ observed.status.isActive
             /\ \/ observed.featureId \in observed.status.entitlements
                \/ "premium" \in observed.status.entitlements )

\* a feature that is not itself among the entitlements was found unlocked
\* through the premium entitlement of an active subscription
C20_Witness ==
    /\ observed # NULL
    /\ observed.op = "isFeatureUnlocked"
    /\ observed.status # NULL
    /\ observed.featureId \notin observed.status.entitlements
    /\ observed.result

\* a validatePromoCode call on the service ends in this step
ServiceCallEnds(j) ==
    /\ calls[j].kind = "service"
    /\ calls[j].pc = "validating"
    /\ calls'[j] = NoCall

\* C16: validatePromoCode never throws.  Every call that asked the catalog
\* ends by returning a validation to its caller, and when the catalog call
\* failed (transport error, non-2xx) that validation has isValid = false, no
\* promoCode and no discountedPrice; a call answered from the cache returns a
\* value as well.
C16_ValidateNeverThrows ==
    [][ /\ \A j \in 1..MaxCalls :
             ServiceCallEnds(j)
             => /\ observed' = observed
                /\ lastReturn' # NULL
                /\ lastReturn'.queried
                /\ lastReturn'.at = now
                /\ lastReturn'.key =
                       CacheKey(calls[j].code, calls[j].planId, calls[j].userId)
                /\ lastReturn'.result.isValid \in BOOLEAN
                /\ callRejected(j)
                   => /\ ~lastReturn'.result.isValid
                      /\ lastReturn'.result.promoCode = UNDEF
                      /\ lastReturn'.result.discountedPrice = UNDEF
        /\ \A code \in CodeInputs : \A planId \in PlanIdInputs :
           \A uid \in UserIds :
             (serviceValidate(code, planId, uid) /\ calls' = calls)
             => /\ observed' = observed
                /\ lastReturn' # NULL
                /\ lastReturn'.key = CacheKey(code, planId, uid)
      ]_vars

\* a validation whose backend call failed has come back as a value
C16_Witness ==
    /\ lastReturn # NULL
    /\ lastReturn.queried
    /\ lastReturn.result.error = "VALIDATION_FAILED"
    /\ ~lastReturn.result.isValid
    /\ observed = NULL

\* the apply call j ends in this step after a validation that did not
\* succeed: the catalog call failed, or the catalog refused the code
ApplyFails(j) ==
    /\ calls[j].kind = "apply"
    /\ calls[j].pc = "validating"
    /\ calls'[j] = NoCall
    /\ \/ callRejected(j)
       \/ ~mockValidate(normalizeCode(calls[j].code), calls[j].planId,
                        now).isValid

\* C17: an applyPromoCode whose validation did not succeed fails with an
\* error of code INVALID_PROMO_CODE, leaves selectedPlan and appliedPromo as
\* they were, and leaves isApplying false.
C17_InvalidPromoCode ==
    [][\A j \in 1..MaxCalls :
         ApplyFails(j)
         => /\ observed' # NULL
            /\ observed'.op = "applyPromoCode"
            /\ observed'.error.code = "INVALID_PROMO_CODE"
            /\ paywallState'.selectedPlan = paywallState.selectedPlan
            /\ promoCodeState'.appliedPromo = promoCodeState.appliedPromo
            /\ ~promoCodeState'.isApplying
      ]_vars

\* the discount calculation of the claims, stated on prices
ExpectedPrice(p, discount) ==
    IF discount.type = "percentage"
    THEN IF discount.value >= 100 THEN 0
         ELSE (p * (100 - discount.value)) \div 100
    ELSE IF discount.type = "fixed"
    THEN IF discount.value > p THEN 0 ELSE p - discount.value
    ELSE 0

\* C18: whenever a promo is applied, the price of its discounted plan is the
\* discount calculation on the price of its original plan with the promo
\* code's discount, never below 0; and the application records as original
\* plan the plan the call was made on, unchanged.
C18_DiscountedPlanPrice ==
    /\ [](promoCodeState.appliedPromo # NULL
          => /\ promoCodeState.appliedPromo.discountedPlan.price =
                    ExpectedPrice(promoCodeState.appliedPromo.originalPlan.price,
                                  promoCodeState.appliedPromo.promoCode.discount)
             /\ promoCodeState.appliedPromo.discountedPlan.price >= 0)
    /\ [][\A j \in 1..MaxCalls :
            ApplySucceeds(j)
            => /\ promoCodeState'.appliedPromo.originalPlan = calls[j].plan
               /\ promoCodeState'.appliedPromo.discountedPlan.id = calls[j].plan.id
               /\ promoCodeState'.appliedPromo.originalPlan \in
                      Discounted(MaxDiscounts - 1)
         ]_vars

\* the fixed discount of SPECIAL50 is applied to the yearly plan, whose
\* price it exceeds: the discounted price is clamped at 0
C18_Witness ==
    /\ promoCodeState.appliedPromo # NULL
    /\ promoCodeState.appliedPromo.promoCode.code = STR_SPECIAL50
    /\ promoCodeState.appliedPromo.originalPlan = PlanYearly
    /\ promoCodeState.appliedPromo.discountedPlan.price = 0

RestoreFailedMessage == "Failed to restore purchases. Please try again."

\* C21: no step of a restorePurchases() call, succeeding or failing and in
\* whatever purchaseState, changes selectedPlan, purchaseState or the promo
\* state (code, validation, appliedPromo); the subscription status refresh
\* starts only once the billing restore call has returned, and a call that
\* ends without that refresh is one whose restore call failed.
C21_RestoreFrame ==
    [][\A i \in 1..MaxRestores :
         /\ restores'[i] # restores[i]
            => /\ paywallState'.selectedPlan = paywallState.selectedPlan
               /\ paywallState'.purchaseState = paywallState.purchaseState
               /\ promoCodeState'.code = promoCodeState.code
               /\ promoCodeState'.validation = promoCodeState.validation
               /\ promoCodeState'.appliedPromo = promoCodeState.appliedPromo
         /\ ( /\ restores'[i].pc \in {"status", "store"}
              /\ restores[i].pc \notin {"status", "store"} )
            => \/ restores[i].pc = "restoring"
               \/ restores[i].pc = "none" /\ ~BillingIsRemote
         /\ (restores[i].pc = "restoring" /\ restores'[i].pc = "none")
            => paywallState'.error = RestoreFailedMessage
      ]_vars

C21_Witness ==
    /\ paywallState.error = RestoreFailedMessage
    /\ paywallState.purchaseState = "processing"
    /\ paywallState.selectedPlan # UNDEF
    /\ promoCodeState.appliedPromo # NULL
    /\ \A i \in 1..MaxRestores : restores[i].pc = "none"

\* a hasUserUsedPromoCode call in flight returns at this step
UsageCallEnds(j) == calls[j].pc = "checking" /\ calls'[j].pc = "none"

\* C22: hasUserUsedPromoCode never throws: every call ends with a boolean
\* resolved to its caller, and a call whose backend request failed (transport
\* error or non-2xx response) resolves to false.
C22_UsageNeverThrows ==
    [][\A j \in 1..MaxCalls :
         UsageCallEnds(j)
         => /\ DOMAIN observed' = {"op", "code", "userId", "result", "failed"}
            /\ observed'.op = "hasUserUsedPromoCode"
            /\ observed'.code = calls[j].code
            /\ observed'.userId = calls[j].userId
            /\ observed'.result \in BOOLEAN
            /\ observed'.failed => ~observed'.result
      ]_vars

C22_Witness ==
    /\ observed # NULL
    /\ DOMAIN observed = {"op", "code", "userId", "result", "failed"}
    /\ observed.op = "hasUserUsedPromoCode"
    /\ observed.code = STR_SAVE20
    /\ observed.failed
    /\ ~observed.result

\* a validatePromoCode call on the service returns in this step
ServiceReturns == lastReturn' # NULL /\ lastReturn' # lastReturn

\* C23: two validatePromoCode calls whose codes differ only in letter case
\* or whitespace, with the same planId and userId, use the same cache entry:
\* when the second returns within the TTL of the first (whose result came
\* from the catalog or the cache, not from a failed request), it returns the
\* cached result and has made no catalog request.
C23_CanonicalCacheKey ==
    [][( /\ ServiceReturns
         /\ lastReturn # NULL
         /\ lastReturn.result.error # "VALIDATION_FAILED"
         /\ normalizeCode(lastReturn'.code) = normalizeCode(lastReturn.code)
         /\ lastReturn'.planId = lastReturn.planId
         /\ lastReturn'.userId = lastReturn.userId
         /\ lastReturn'.at - lastReturn.at <= CacheExpirySeconds )
       => /\ ~lastReturn'.queried
          /\ lastReturn'.key = lastReturn.key
      ]_vars

\* the validation without the time stamp the cache keeps in its message
Unstamped(validation) ==
    [validation EXCEPT !.message = Msg(validation.message.text)]

\* C24: every result validatePromoCode returns, valid or invalid and the
\* result of a failed catalog or backend call included, is in the cache
\* under the call's composite key when the call returns.
C24_EveryResultCached ==
    [][ServiceReturns
       => /\ cache'[lastReturn'.key] # NULL
          /\ Unstamped(cache'[lastReturn'.key]) = Unstamped(lastReturn'.result)
      ]_vars

\* C29: in a service constructed with enableCache = false every
\* validatePromoCode call has queried the catalog: no result comes from the
\* cache.
C29_NoCacheWhenDisabled ==
    (~providerConfig.cachePromoCodes /\ lastReturn # NULL) => lastReturn.queried

\* C30: a return served from the cache goes to a call with the same
\* (code, planId, userId) as the call whose return, just before, used the
\* same cache key: distinct triples never share a key.
C30_KeyPerTriple ==
    [][( /\ ServiceReturns
         /\ lastReturn # NULL
         /\ ~lastReturn'.queried
         /\ lastReturn'.key = lastReturn.key )
       => /\ lastReturn'.code = lastReturn.code
          /\ lastReturn'.planId = lastReturn.planId
          /\ lastReturn'.userId = lastReturn.userId
      ]_vars

\* C25: hidePaywall() called while a purchase is processing resets
\* selectedPlan and error and leaves the purchase in flight; a purchase whose
\* paywall was hidden while it was in flight keeps the plan it started with,
\* moves purchaseState to success when its billing call succeeded and to
\* error when it failed, and when billing succeeded the promo it started
\* with has been redeemed once and the promo state is cleared at its end.
C25_HideKeepsPurchase ==
    [][\A i \in 1..MaxPurchases :
         LET p == purchases[i]
         IN  /\ (hidePaywall /\ p.pc \in InFlightPcs)
                => /\ paywallState'.selectedPlan = UNDEF
                   /\ paywallState'.error = NoError
                   /\ paywallState'.purchaseState = paywallState.purchaseState
                   /\ purchases'[i] = p
             /\ (p.pc \in InFlightPcs /\ paywallState.selectedPlan = UNDEF)
                => /\ purchases'[i].pc \in InFlightPcs
                      => purchases'[i].plan = p.plan
                   /\ ( /\ p.pc \in {"status", "store"}
                        /\ purchases'[i].pc \in {"redeem", "done"} )
                      => paywallState'.purchaseState = "success"
                   /\ (p.pc = "billing" /\ purchases'[i].pc = "done")
                      => paywallState'.purchaseState = "error"
                   /\ ( /\ p.pc \in BillingSucceededPcs
                        /\ purchases'[i].pc = "done"
                        /\ p.promoCode # <<>> )
                      => /\ purchases'[i].redeems = 1
                         /\ PromoCleared(promoCodeState')
      ]_vars

\* C26: every failure of applyPromoCode, purchasePlan or restorePurchases is
\* surfaced: none of the three provider actions returns a rejected promise,
\* so when one of them ends in failure (the validation did not succeed, the
\* billing or the redeem call failed, the restore call failed)
\* paywallState.error carries a message.
C26_FailuresSurface ==
    [][ /\ \A j \in 1..MaxCalls :
             ApplyFails(j) => paywallState'.error # NoError
        /\ \A i \in 1..MaxPurchases :
             ( /\ purchases[i].pc \in {"billing", "redeem"}
               /\ purchases'[i].pc = "done"
               /\ paywallState'.purchaseState # "success" )
             => paywallState'.error # NoError
        /\ \A i \in 1..MaxRestores :
             (restores[i].pc = "restoring" /\ restores'[i].pc = "none")
             => paywallState'.error # NoError
      ]_vars

\* C27: in every reachable state purchaseState = processing implies
\* isLoading = true, whatever restorePurchases call overlaps the purchase.
C27_ProcessingIsLoading ==
    paywallState.purchaseState = "processing" => paywallState.isLoading

\* the plan of the catalog with this id
CatalogPlan(id) == CHOOSE p \in PlanInputs : p.id = id

\* C28: discounts never compound.  While a promo is applied and its
\* discounted plan is the selected plan, the selected price is one
\* application of that promo's discount to the catalog price of the plan,
\* and the recorded original plan, the one removePromoCode selects again, is
\* the catalog plan.
C28_NoCompounding ==
    ( /\ promoCodeState.appliedPromo # NULL
      /\ paywallState.selectedPlan = promoCodeState.appliedPromo.discountedPlan )
    => /\ promoCodeState.appliedPromo.originalPlan =
              CatalogPlan(paywallState.selectedPlan.id)
       /\ paywallState.selectedPlan.price =
              ExpectedPrice(CatalogPlan(paywallState.selectedPlan.id).price,
                            promoCodeState.appliedPromo.promoCode.discount)

====
